---- MODULE Spec2Model ----
(***************************************************************************)
(* Model of the website crawler of app.py: crawl_website (the main thread), *)
(* crawler_worker (the worker threads), ThreadSafeCrawlerState and          *)
(* scrape_whatsapp_links_from_page.                                         *)
(*                                                                          *)
(* Time is counted in seconds.  A worker's sleep is a timer that the Tick    *)
(* action counts down; a timestamp is kept as its age (the seconds since it *)
(* was taken), saturating at the largest value any comparison reads.  The   *)
(* sleeps of the main thread bound its steps from below only, and no step   *)
(* of a worker is bounded from above, so the main thread is not timed: it   *)
(* counts its one-second sleeps, and a join may time out at any moment.     *)
(***************************************************************************)
EXTENDS Integers, Sequences, FiniteSets, TLC

\* ---------------------------------------------------------------- bounds
NumThreads == 2
WaitSeconds == 1

\* ------------------------------------------------------ program constants
PolitenessDelay == 1
CheckInterval == 3
DefaultMaxPages == 1000000

Threads == 0 .. (NumThreads - 1)

\* ------------------------------------------------------------------ URLs
\* A URL is a record of the parts urlparse gives: scheme, netloc (the sequence
\* of its labels, each with the dot that follows it, so that the 'www.' label
\* can be removed wherever it stands),
\* path (the sequence of its segments: <<>> is the empty path, <<"">> is "/"),
\* query and fragment.
Url(s, n, p, q, f) == [scheme |-> s, netloc |-> n, path |-> p, query |-> q, fragment |-> f]

\* An href of an <a> tag: an absolute URL ("abs"), an absolute path ("path")
\* or a bare fragment ("frag"), with the parts it spells out.
Href(k, u) == [kind |-> k, url |-> u]

WHATSAPP_DOMAIN == Url("https", <<"chat.whatsapp.com">>, <<"">>, "", "")

\* href.startswith(WHATSAPP_DOMAIN): "https://chat.whatsapp.com/" is a prefix
\* exactly when scheme and netloc match and the path starts with "/".
StartsWithWhatsApp(u) ==
    /\ u.scheme = WHATSAPP_DOMAIN.scheme
    /\ u.netloc = WHATSAPP_DOMAIN.netloc
    /\ u.path # <<>>

\* f"{scheme}://{netloc}{path}"
SchemeNetlocPath(u) == Url(u.scheme, u.netloc, u.path, "", "")

\* netloc.replace('www.', '')
StripWww(netloc) == SelectSeq(netloc, LAMBDA t : t # "www.")

\* urljoin(base, href) for the three kinds of href
UrlJoin(base, h) ==
    CASE h.kind = "abs" -> h.url
      [] h.kind = "path" -> Url(base.scheme, base.netloc, h.url.path, h.url.query, h.url.fragment)
      [] OTHER -> Url(base.scheme, base.netloc, base.path, base.query, h.url.fragment)

\* urljoin(url, urlparse(url).path or '/')
NormalizeUrl(u) == Url(u.scheme, u.netloc, IF u.path = <<>> THEN <<"">> ELSE u.path, "", "")

RECURSIVE SumLen(_)
SumLen(segs) == IF segs = <<>> THEN 0 ELSE Len(Head(segs)) + SumLen(Tail(segs))

\* len(parsed_url.path.replace('/', ''))
PathIdLen(u) == SumLen(u.path)

\* ------------------------------------------------------------- the site
\* The paths of the site whose requests may fail during the crawl.
VARIABLE flaky_paths
\* The HTTP requests the servers have received so far, per normalized URL.
VARIABLE request_count

\* The pages the crawled server holds.  The seed is https://www.a.com; its
\* page links twice to /p1 (two query strings, one normalized URL), to another
\* site and to a fragment of itself; /p1 links to /p2, which links back.
SiteNetloc == <<"www.", "a.", "com">>
Seed == Url("https", SiteNetloc, <<>>, "", "")
OtherSite == Url("https", <<"b.", "org">>, <<"">>, "", "")
Invite1 == Url("https", <<"chat.whatsapp.com">>, <<"Inv1">>, "", "")
Invite1Ref == Url("https", <<"chat.whatsapp.com">>, <<"Inv1">>, "ref=1", "")
Invite2Http == Url("http", <<"chat.whatsapp.com">>, <<"AbCdEfGhIjKlMnOpQr">>, "", "")
Invite3 == Url("https", <<"chat.whatsapp.com">>, <<"ZyXwVuTsRqPoNmLkJi">>, "", "")

EmptyBody == [anchors |-> <<>>, text_links |-> {}]

\* A second site, https://c.net: its index page links to three documents that
\* are served as application/pdf and then twice more to the first one.
DocNetloc == <<"c.", "net">>
DocSeed == Url("https", DocNetloc, <<>>, "", "")
DocPaths == { <<"d">>, <<"e">>, <<"f">> }
IsDocument(u) == StripWww(u.netloc) = DocNetloc /\ NormalizeUrl(u).path \in DocPaths
DocIndex ==
    [anchors |-> << Href("path", Url("", <<>>, <<"d">>, "", "")),
                    Href("path", Url("", <<>>, <<"e">>, "", "")),
                    Href("path", Url("", <<>>, <<"f">>, "", "")),
                    Href("path", Url("", <<>>, <<"d">>, "v=1", "")),
                    Href("path", Url("", <<>>, <<"d">>, "v=2", "")) >>,
     text_links |-> {}]
\* Its page /s links twice to the first document.
DocSection == Url("https", DocNetloc, <<"s">>, "", "")
DocSectionIndex ==
    [anchors |-> << Href("path", Url("", <<>>, <<"d">>, "", "")),
                    Href("path", Url("", <<>>, <<"d">>, "v=1", "")) >>,
     text_links |-> {}]

\* Its page /o links to the index page of another host, c.www.net.
DocOutbound == Url("https", DocNetloc, <<"o">>, "", "")
WwwSubdomain == Url("https", <<"c.", "www.", "net">>, <<"">>, "", "")
DocOutboundIndex == [anchors |-> << Href("abs", WwwSubdomain) >>, text_links |-> {}]

\* A third site, https://e.io: /more is an incremental-load endpoint that gives
\* the next batch of invite links on each request, three batches and then an
\* empty body.
EndpointNetloc == <<"e.", "io">>
Endpoint == Url("https", EndpointNetloc, <<"more">>, "", "")
IsEndpoint(u) == NormalizeUrl(u) = Endpoint
BatchInvite(k) == Url("https", <<"chat.whatsapp.com">>, <<"Batch", k>>, "", "")
NumBatches == 3
Batch(k) ==
    IF k <= NumBatches
      THEN [anchors |-> << Href("abs", BatchInvite(k)) >>, text_links |-> {}]
      ELSE EmptyBody
Requests(u) == IF NormalizeUrl(u) \in DOMAIN request_count
                 THEN request_count[NormalizeUrl(u)] ELSE 0

\* The body the server holds for a URL: its <a href> tags in document order
\* and the chat.whatsapp.com URLs that stand in its text.
PageBody(u) ==
    IF u.netloc = WwwSubdomain.netloc THEN EmptyBody
    ELSE IF StripWww(u.netloc) = DocNetloc
      THEN CASE NormalizeUrl(u).path = <<"">> -> DocIndex
             [] NormalizeUrl(u).path = <<"s">> -> DocSectionIndex
             [] NormalizeUrl(u).path = <<"o">> -> DocOutboundIndex
             [] OTHER -> EmptyBody
    ELSE IF StripWww(u.netloc) # <<"a.", "com">> THEN EmptyBody
    ELSE CASE NormalizeUrl(u).path = <<"">> ->
                [anchors |-> << Href("abs", Url("https", SiteNetloc, <<"p1">>, "x=1", "")),
                                Href("abs", Url("https", SiteNetloc, <<"p1">>, "x=2", "")),
                                Href("abs", OtherSite),
                                Href("frag", Url("", <<>>, <<>>, "", "top")),
                                Href("abs", Invite1) >>,
                 text_links |-> {}]
           [] NormalizeUrl(u).path = <<"p1">> ->
                [anchors |-> << Href("path", Url("", <<>>, <<"p2">>, "", "")),
                                Href("abs", Invite1Ref) >>,
                 text_links |-> {Invite2Http}]
           [] NormalizeUrl(u).path = <<"p2">> ->
                [anchors |-> << Href("abs", Url("https", SiteNetloc, <<"">>, "", "")) >>,
                 text_links |-> {Invite3}]
           [] OTHER -> EmptyBody

\* The pages whose requests do not always give the page as text/html: those
\* whose path is among the flaky paths of the crawl checked.
Unreliable(u) == NormalizeUrl(u).path \in flaky_paths

\* What one HTTP GET of u can give: the page as text/html; for an unreliable
\* page also the same bytes under another Content-Type, a timeout, or a 404
\* status, which raise_for_status turns into an HTTPError.
Responses(u) ==
    IF IsDocument(u)
      THEN { [status |-> "ok", html |-> FALSE, body |-> PageBody(u)] }
    ELSE IF IsEndpoint(u)
      THEN { [status |-> "ok", html |-> TRUE, body |-> Batch(Requests(u) + 1)] }
      ELSE { [status |-> "ok", html |-> TRUE, body |-> PageBody(u)] }
           \cup IF Unreliable(u)
                  THEN { [status |-> "ok", html |-> FALSE, body |-> PageBody(u)],
                         [status |-> "timeout", html |-> FALSE, body |-> EmptyBody],
                         [status |-> "http_404", html |-> FALSE, body |-> EmptyBody] }
                  ELSE {}

\* The seed page once its delayed script has run: one more invite link.
InviteLate == Url("https", <<"chat.whatsapp.com">>, <<"Late1">>, "", "")
LateBody(u) ==
    IF StripWww(u.netloc) = <<"a.", "com">> /\ NormalizeUrl(u).path = <<"">>
      THEN [PageBody(u) EXCEPT !.anchors = Append(@, Href("abs", InviteLate))]
      ELSE PageBody(u)

\* What the GET after the wait can give: as before, or the page with the
\* content that arrived late.
ResponsesAfterWait(u) ==
    Responses(u) \cup { [status |-> "ok", html |-> TRUE, body |-> LateBody(u)] }

\* ------------------------------------------------- scraping one response
\* _extract_links_from_response: the links one response adds to the set.
\* Method 1 takes the <a> tags whose href starts with WHATSAPP_DOMAIN;
\* method 2 takes the chat.whatsapp.com URLs of the text whose invite id is
\* longer than 15 characters.  Both keep scheme://netloc/path only.
ExtractLinks(body) ==
    { SchemeNetlocPath(body.anchors[i].url) :
        i \in { j \in DOMAIN body.anchors :
                  /\ body.anchors[j].kind = "abs"
                  /\ StartsWithWhatsApp(body.anchors[j].url) } }
    \cup { SchemeNetlocPath(t) : t \in { x \in body.text_links : PathIdLen(x) > 15 } }

\* ------------------------------------------------------------- the state
VARIABLES
    \* arguments of crawl_website
    start_url, max_depth, max_pages, wait_for_dynamic, wait_time_seconds,
    \* locals of crawl_website shared with the workers
    base_domain, url_queue, unfinished_tasks, stop_event, page_count,
    \* ThreadSafeCrawlerState
    visited_urls, scraped_whatsapp_links, domain_last_request_time,
    \* the holder of ThreadSafeCrawlerState.lock and of progress_lock: <<>>
    \* when free, <<w>> when worker w is inside a with block
    lock, progress_lock,
    \* the main thread: its position, the one-second sleeps since
    \* last_check_time, the thread being joined, what it returns
    mpc, sleeps_since_check, join_idx, result, reported_pages,
    \* each worker: its position and its locals
    pc, current_url, depth, links, newly_found_count, current_page_count, hrefs, wtimer,
    \* each worker: what the two GETs of scrape_whatsapp_links_from_page gave
    \* for the entry in hand
    response, response_after_wait,
    \* history of the network: the HTTP requests per normalized URL, the age
    \* of the last request per origin, the gaps seen between two requests to
    \* one origin
    last_net_age, request_gaps,
    \* history of the calls: the visited checks passed per normalized URL; per
    \* link the value the first add_scraped_link returned and the number of
    \* calls that returned True; the sum of the newly_found_count increments;
    \* the entries put on the queue; the pages scraped
    passed_check, first_return, true_returns, newly_found_total, put_log, fetch_log,
    pages_fetched,
    \* main(): st.session_state.processed_links_in_session; the Group Link of
    \* each record of st.session_state.results; the position of the run of the
    \* script; the links of the action still to be validated; the Group Link of
    \* each record of new_results_this_run; what validate_link returned last
    processed_links_in_session, results, spc, links_to_validate_now,
    new_results_this_run, result_validated,
    \* history of the session since the results were cleared: the links given
    \* to validate_link, and those given to it more than once
    validated_links, validated_again

session_vars == << processed_links_in_session, results, spc, links_to_validate_now,
                   new_results_this_run, result_validated, validated_links,
                   validated_again >>
\* The arguments of the crawl and, as no step of a crawl touches it, the
\* session state of main().
config_vars == << start_url, max_depth, max_pages, wait_for_dynamic, wait_time_seconds,
                  base_domain, flaky_paths, session_vars >>
queue_vars == << url_queue, unfinished_tasks >>
state_vars == << visited_urls, scraped_whatsapp_links, domain_last_request_time >>
main_vars == << mpc, sleeps_since_check, join_idx, result, reported_pages >>
local_vars == << current_url, depth, links, newly_found_count, current_page_count, hrefs >>
resp_vars == << response, response_after_wait >>
lock_vars == << lock, progress_lock >>
net_vars == << request_count, last_net_age, request_gaps >>
add_vars == << first_return, true_returns, newly_found_total >>
log_vars == << passed_check, put_log, fetch_log, pages_fetched >>
vars == << config_vars, queue_vars, stop_event, page_count, state_vars, main_vars, pc,
           local_vars, resp_vars, lock_vars, wtimer, net_vars, add_vars, log_vars >>

\* ------------------------------------------------------------ the inputs
\* The crawls checked.  max_depth is None (<<>>) or a number (<<d>>: the depth
\* slider starts at 0); max_pages is a page limit or the default that stands
\* for "unlimited".
Configs ==
    { [max_depth |-> <<>>, max_pages |-> 1, wait_for_dynamic |-> FALSE,
       flaky_paths |-> { <<"p1">> }],
      [max_depth |-> <<0>>, max_pages |-> DefaultMaxPages, wait_for_dynamic |-> FALSE,
       flaky_paths |-> { <<"">> }],
      [max_depth |-> <<0>>, max_pages |-> DefaultMaxPages, wait_for_dynamic |-> TRUE,
       flaky_paths |-> { <<"">> }],
      [max_depth |-> <<1>>, max_pages |-> DefaultMaxPages, wait_for_dynamic |-> FALSE,
       flaky_paths |-> { <<"">> }] }
\* The text typed as start URL: blank, or a URL with or without its scheme.
StartUrls ==
    { [blank |-> FALSE, url |-> Seed],
      [blank |-> FALSE, url |-> Url("", SiteNetloc, <<>>, "", "")],
      [blank |-> FALSE, url |-> Url("https", <<>>, <<>>, "", "")],
      [blank |-> TRUE, url |-> Url("", <<>>, <<>>, "", "")] }

NoUrl == Url("", <<>>, <<>>, "", "")
NoResponse == [status |-> "none", html |-> FALSE, body |-> EmptyBody]

\* A function with one more count at key k (a defaultdict(int) increment).
Bump(f, k) == IF k \in DOMAIN f THEN [f EXCEPT ![k] = @ + 1] ELSE f @@ (k :> 1)

\* The arguments of one call of crawl_website and the server it meets.
Called(s, c) ==
    /\ start_url = s
    /\ max_depth = c.max_depth
    /\ max_pages = c.max_pages
    /\ wait_for_dynamic = c.wait_for_dynamic
    /\ flaky_paths = c.flaky_paths
    /\ wait_time_seconds = WaitSeconds

\* What validate_link returns: the Group Name and the Status of its record.
Validated(name, status) == [name |-> name, status |-> status]

\* Lines 710-711: a fresh session.
SessionStart ==
    /\ processed_links_in_session = {}
    /\ results = {}
    /\ spc = "idle"
    /\ links_to_validate_now = {}
    /\ new_results_this_run = {}
    /\ result_validated = Validated("", "none")
    /\ validated_links = {}
    /\ validated_again = {}

\* The state on entry of crawl_website: nothing created, no thread started.
Entered ==
    /\ base_domain = <<>>
    /\ url_queue = <<>>
    /\ unfinished_tasks = 0
    /\ stop_event = FALSE
    /\ page_count = 0
    /\ visited_urls = {}
    /\ scraped_whatsapp_links = {}
    /\ domain_last_request_time = << >>
    /\ lock = <<>>
    /\ progress_lock = <<>>
    /\ mpc = "begin"
    /\ sleeps_since_check = 0
    /\ join_idx = 0
    /\ result = {}
    /\ reported_pages = 0
    /\ pc = [w \in Threads |-> "idle"]
    /\ current_url = [w \in Threads |-> NoUrl]
    /\ depth = [w \in Threads |-> 0]
    /\ links = [w \in Threads |-> {}]
    /\ newly_found_count = [w \in Threads |-> 0]
    /\ current_page_count = [w \in Threads |-> 0]
    /\ hrefs = [w \in Threads |-> <<>>]
    /\ wtimer = [w \in Threads |-> 0]
    /\ response = [w \in Threads |-> NoResponse]
    /\ response_after_wait = [w \in Threads |-> NoResponse]
    /\ request_count = << >>
    /\ last_net_age = << >>
    /\ request_gaps = {}
    /\ passed_check = << >>
    /\ first_return = << >>
    /\ true_returns = << >>
    /\ newly_found_total = 0
    /\ put_log = {}
    /\ fetch_log = {}
    /\ pages_fetched = 0
    /\ SessionStart

Init == (\E s \in StartUrls, c \in Configs : Called(s, c)) /\ Entered

\* ------------------------------------------------------ the main thread
\* The validation without the host test of line 512.
InvalidStartUrlBlankOnly(s) == s.blank

\* Lines 502 and 512: the text is blank, or the URL parsed from it has no host.
InvalidStartUrl(s) == s.blank \/ s.url.netloc = <<>>

\* crawl_website, lines 501-514: a blank start URL, or one without a host,
\* returns the empty set before anything is created.
CrawlReject ==
    /\ mpc = "begin"
    /\ InvalidStartUrl(start_url)
    /\ mpc' = "returned"
    /\ result' = {}
    /\ UNCHANGED << config_vars, queue_vars, stop_event, page_count, state_vars,
                    sleeps_since_check, join_idx, reported_pages, pc, local_vars, wtimer,
                    net_vars, add_vars, log_vars,
                    resp_vars, lock_vars >>

\* The start URL with 'https://' prepended when it has no scheme.
WithScheme(u) == IF u.scheme \in {"http", "https"} THEN u ELSE [u EXCEPT !.scheme = "https"]

\* crawl_website, lines 504-569: the seed is put on the queue at depth 0, the
\* workers are started and the wait loop is entered.
CrawlStart ==
    /\ mpc = "begin"
    /\ ~InvalidStartUrl(start_url)
    /\ start_url' = [start_url EXCEPT !.url = WithScheme(start_url.url)]
    /\ base_domain' = StripWww(start_url.url.netloc)
    /\ url_queue' = << [url |-> WithScheme(start_url.url), depth |-> 0] >>
    /\ unfinished_tasks' = 1
    /\ put_log' = { [url |-> WithScheme(start_url.url), depth |-> 0, after_stop |-> FALSE] }
    /\ pc' = [w \in Threads |-> "loop"]
    /\ mpc' = "wait_test"
    /\ sleeps_since_check' = 0
    /\ UNCHANGED << max_depth, max_pages, wait_for_dynamic, wait_time_seconds, flaky_paths,
                    session_vars, stop_event,
                    page_count, state_vars, join_idx, result, reported_pages, local_vars,
                    wtimer, net_vars, add_vars, passed_check, fetch_log, pages_fetched,
                    resp_vars, lock_vars >>

main_frame == << config_vars, queue_vars, page_count, state_vars, pc, local_vars, resp_vars,
                 lock_vars, wtimer, net_vars, add_vars, log_vars >>

\* Line 570: the loop test of the wait loop.
WaitTest ==
    /\ mpc = "wait_test"
    /\ mpc' = IF stop_event THEN "signal" ELSE "sleep"
    /\ UNCHANGED << main_frame, stop_event, sleeps_since_check, join_idx, result,
                    reported_pages >>

\* Line 575 after n one-second sleeps since last_check_time: a sleep may last
\* longer than asked, so more than 3 s may have passed after any of them, and
\* have passed for certain after more than CheckInterval of them.
MayBeDue(n) == IF n > CheckInterval THEN {TRUE} ELSE BOOLEAN

\* Lines 572-582: time.sleep(1); then, more than 3 s after the last check, an
\* empty queue starts the 1.5 s settling sleep and a non-empty one resets
\* last_check_time.
AfterSleep ==
    /\ mpc = "sleep"
    /\ \E due \in MayBeDue(sleeps_since_check + 1) :
         IF due
           THEN /\ mpc' = IF url_queue = <<>> THEN "settle" ELSE "wait_test"
                /\ sleeps_since_check' = 0
           ELSE /\ mpc' = "wait_test"
                /\ sleeps_since_check' = sleeps_since_check + 1
    /\ UNCHANGED << main_frame, stop_event, join_idx, result, reported_pages >>

\* Lines 579-582 after the settling sleep: a queue that is still empty ends
\* the loop (break); otherwise last_check_time becomes the time read before
\* that sleep, which is then at least one second old.
AfterSettle ==
    /\ mpc = "settle"
    /\ IF url_queue = <<>>
         THEN mpc' = "break" /\ sleeps_since_check' = 0
         ELSE mpc' = "wait_test" /\ sleeps_since_check' = 1
    /\ UNCHANGED << main_frame, stop_event, join_idx, result, reported_pages >>

\* Lines 583-585: a KeyboardInterrupt during the wait loop sets the stop event.
Interrupt ==
    /\ mpc \in {"wait_test", "sleep", "settle"}
    /\ stop_event' = TRUE
    /\ mpc' = "signal"
    /\ sleeps_since_check' = 0
    /\ UNCHANGED << main_frame, join_idx, result, reported_pages >>

\* Line 591: stop_event.set() after the loop, however it ended.
Signal ==
    /\ mpc \in {"signal", "break"}
    /\ stop_event' = TRUE
    /\ mpc' = "join"
    /\ join_idx' = 0
    /\ UNCHANGED << main_frame, sleeps_since_check, result, reported_pages >>

Exited(w) == pc[w] \in {"done", "dead"}

\* The join of thread join_idx is over: the next thread, or the results.
AfterJoin ==
    /\ IF join_idx + 1 < NumThreads
         THEN join_idx' = join_idx + 1 /\ UNCHANGED mpc
         ELSE mpc' = "collect" /\ UNCHANGED join_idx
    /\ UNCHANGED << main_frame, stop_event, sleeps_since_check, result, reported_pages >>

\* Lines 594-595: t.join(timeout=5) returns because the thread has ended.
JoinThread ==
    /\ mpc = "join"
    /\ Exited(join_idx)
    /\ AfterJoin

\* Lines 594-595: t.join(timeout=5) returns after 5 s with the thread alive.
JoinTimeout ==
    /\ mpc = "join"
    /\ ~Exited(join_idx)
    /\ AfterJoin

\* Lines 598-605: the copy of the link set and the page count are returned.
Collect ==
    /\ mpc = "collect"
    /\ lock = <<>>
    /\ result' = scraped_whatsapp_links
    /\ reported_pages' = page_count
    /\ mpc' = "returned"
    /\ UNCHANGED << main_frame, stop_event, sleeps_since_check, join_idx >>

\* ---------------------------------------------- ThreadSafeCrawlerState
\* Each method runs under self.lock: it is one atomic step.

\* is_visited, lines 370-372
is_visited(normalized_url) == normalized_url \in visited_urls

\* add_visited_url, lines 366-368: the set after the call
add_visited_url(normalized_url) == visited_urls \cup {normalized_url}

\* add_scraped_link without the membership test of line 376.
add_scraped_link_always_new(link) == TRUE

\* add_scraped_link, lines 374-379: the value returned, and the set after
add_scraped_link_returns(link) == link \notin scraped_whatsapp_links
add_scraped_link_set(link) == scraped_whatsapp_links \cup {link}

\* get_last_request_time, lines 389-391, as the age of the timestamp: a
\* domain never written reads 0.0, a time long past.
get_last_request_age(domain) ==
    IF domain \in DOMAIN domain_last_request_time
      THEN domain_last_request_time[domain]
      ELSE PolitenessDelay

\* update_last_request_time(domain, time.time()), lines 385-387
update_last_request_time(domain) ==
    IF domain \in DOMAIN domain_last_request_time
      THEN [domain_last_request_time EXCEPT ![domain] = 0]
      ELSE domain_last_request_time @@ (domain :> 0)

\* ------------------------------------------------------------ the network
\* One HTTP GET of u goes out now: it is counted under its normalized URL, and
\* the time since the last request to the same origin is recorded.
Origin(u) == StripWww(u.netloc)

NetRequest(u) ==
    /\ request_count' = Bump(request_count, NormalizeUrl(u))
    /\ request_gaps' = IF Origin(u) \in DOMAIN last_net_age
                         THEN request_gaps \cup {last_net_age[Origin(u)]}
                         ELSE request_gaps
    /\ last_net_age' = IF Origin(u) \in DOMAIN last_net_age
                         THEN [last_net_age EXCEPT ![Origin(u)] = 0]
                         ELSE last_net_age @@ (Origin(u) :> 0)

\* ----------------------------------------------------------- the workers
\* The places where a worker enters `with self.lock:` (lines 367, 371, 375,
\* 386, 390) and `with progress_lock:` (line 533).
AtStateLock(w) ==
    \/ pc[w] \in {"is_visited", "add_visited", "gate", "update_time", "enqueue"}
    \/ pc[w] = "add_links" /\ { l \in links[w] : StartsWithWhatsApp(l) } # {}
AtProgressLock(w) ==
    pc[w] = "add_links" /\ { l \in links[w] : StartsWithWhatsApp(l) } = {}

lock_frame == << config_vars, queue_vars, stop_event, page_count, state_vars, main_vars, pc,
                local_vars, resp_vars, wtimer, net_vars, add_vars, log_vars >>

\* A with block that is never left: its holder keeps the lock.
ReleaseNever(w) == <<w>>

\* The holder of a lock once worker w leaves its with block, which happens
\* when the guarded statements are done (lines 367-391 and 533-536).
Release(w) == <<>>

\* A worker acquires the state lock: it waits while another holds it.
AcquireLock(w) ==
    /\ AtStateLock(w)
    /\ lock = <<>>
    /\ lock' = <<w>>
    /\ UNCHANGED << lock_frame, progress_lock >>

\* A worker acquires progress_lock.
AcquireProgressLock(w) ==
    /\ AtProgressLock(w)
    /\ progress_lock = <<>>
    /\ progress_lock' = <<w>>
    /\ UNCHANGED << lock_frame, lock >>

\* Queue.task_done: ValueError when there is no unfinished task left.
TaskDoneRaises == unfinished_tasks = 0

\* The loop test of line 396 with the stop event left out.
LoopTestIgnoresStop(w) ==
    /\ pc[w] = "loop"
    /\ pc' = [pc EXCEPT ![w] = "get"]
    /\ UNCHANGED << config_vars, queue_vars, stop_event, page_count, state_vars, main_vars,
                    local_vars, wtimer, net_vars, add_vars, log_vars,
                    resp_vars, lock_vars >>

\* Line 396: the loop test of crawler_worker.
LoopTest(w) ==
    /\ pc[w] = "loop"
    /\ pc' = [pc EXCEPT ![w] = IF stop_event THEN "done" ELSE "get"]
    /\ UNCHANGED << config_vars, queue_vars, stop_event, page_count, state_vars, main_vars,
                    local_vars, wtimer, net_vars, add_vars, log_vars,
                    resp_vars, lock_vars >>

\* Line 404: the depth test of a dequeued entry.
TooDeep(d) == IF max_depth = <<>> THEN FALSE ELSE d > max_depth[1]

\* Lines 399-409: an entry is taken from the queue; one deeper than max_depth
\* is discarded.
Get(w) ==
    /\ pc[w] = "get"
    /\ url_queue # <<>>
    /\ url_queue' = Tail(url_queue)
    /\ current_url' = [current_url EXCEPT ![w] = Head(url_queue).url]
    /\ depth' = [depth EXCEPT ![w] = Head(url_queue).depth]
    /\ pc' = [pc EXCEPT ![w] = IF TooDeep(Head(url_queue).depth) THEN "td_skip" ELSE "is_visited"]
    /\ UNCHANGED << config_vars, unfinished_tasks, stop_event, page_count, state_vars,
                    main_vars, links, newly_found_count, current_page_count, hrefs, wtimer,
                    net_vars, add_vars, log_vars,
                    resp_vars, lock_vars >>

\* Lines 400-401: the queue stayed empty for the poll timeout.
GetEmpty(w) ==
    /\ pc[w] = "get"
    /\ url_queue = <<>>
    /\ pc' = [pc EXCEPT ![w] = "loop"]
    /\ UNCHANGED << config_vars, queue_vars, stop_event, page_count, state_vars, main_vars,
                    local_vars, wtimer, net_vars, add_vars, log_vars,
                    resp_vars, lock_vars >>

\* Lines 405 and 413: task_done() and continue, outside any try block.
TdSkip(w) ==
    /\ pc[w] = "td_skip"
    /\ IF TaskDoneRaises
         THEN pc' = [pc EXCEPT ![w] = "dead"] /\ UNCHANGED unfinished_tasks
         ELSE pc' = [pc EXCEPT ![w] = "loop"] /\ unfinished_tasks' = unfinished_tasks - 1
    /\ UNCHANGED << config_vars, url_queue, stop_event, page_count, state_vars, main_vars,
                    local_vars, wtimer, net_vars, add_vars, log_vars,
                    resp_vars, lock_vars >>

\* Line 412: the visited check.
IsVisited(w) ==
    /\ pc[w] = "is_visited"
    /\ lock = <<w>>
    /\ lock' = Release(w)
    /\ IF is_visited(NormalizeUrl(current_url[w]))
         THEN pc' = [pc EXCEPT ![w] = "td_skip"] /\ UNCHANGED passed_check
         ELSE /\ pc' = [pc EXCEPT ![w] = "add_visited"]
              /\ passed_check' = Bump(passed_check, NormalizeUrl(current_url[w]))
    /\ UNCHANGED << config_vars, queue_vars, stop_event, page_count, state_vars, main_vars,
                    local_vars, wtimer, net_vars, add_vars, put_log, fetch_log,
                    pages_fetched,
                    resp_vars, progress_lock >>

\* Line 417: the URL is marked visited.
AddVisited(w) ==
    /\ pc[w] = "add_visited"
    /\ lock = <<w>>
    /\ lock' = Release(w)
    /\ visited_urls' = add_visited_url(NormalizeUrl(current_url[w]))
    /\ pc' = [pc EXCEPT ![w] = "gate"]
    /\ UNCHANGED << config_vars, queue_vars, stop_event, page_count,
                    scraped_whatsapp_links, domain_last_request_time, main_vars, local_vars,
                    wtimer, net_vars, add_vars, log_vars,
                    resp_vars, progress_lock >>

\* Lines 420-424: the last request time of the domain is read and the worker
\* sleeps for what is left of the politeness delay.
Gate(w) ==
    /\ pc[w] = "gate"
    /\ lock = <<w>>
    /\ lock' = Release(w)
    /\ IF get_last_request_age(Origin(current_url[w])) < PolitenessDelay
         THEN /\ pc' = [pc EXCEPT ![w] = "polite_sleep"]
              /\ wtimer' = [wtimer EXCEPT ![w] =
                              PolitenessDelay - get_last_request_age(Origin(current_url[w]))]
         ELSE /\ pc' = [pc EXCEPT ![w] = "update_time"]
              /\ UNCHANGED wtimer
    /\ UNCHANGED << config_vars, queue_vars, stop_event, page_count, state_vars, main_vars,
                    local_vars, net_vars, add_vars, log_vars,
                    resp_vars, progress_lock >>

\* Line 424: time.sleep returns.
Wake(w) ==
    /\ pc[w] = "polite_sleep"
    /\ wtimer[w] = 0
    /\ pc' = [pc EXCEPT ![w] = "update_time"]
    /\ UNCHANGED << config_vars, queue_vars, stop_event, page_count, state_vars, main_vars,
                    local_vars, wtimer, net_vars, add_vars, log_vars,
                    resp_vars, lock_vars >>

\* Line 425: the domain's last request time becomes now.
UpdateTime(w) ==
    /\ pc[w] = "update_time"
    /\ lock = <<w>>
    /\ lock' = Release(w)
    /\ domain_last_request_time' = update_last_request_time(Origin(current_url[w]))
    /\ pc' = [pc EXCEPT ![w] = "scrape"]
    /\ UNCHANGED << config_vars, queue_vars, stop_event, page_count, visited_urls,
                    scraped_whatsapp_links, main_vars, local_vars, wtimer, net_vars,
                    add_vars, log_vars,
                    resp_vars, progress_lock >>

\* scrape_whatsapp_links_from_page, lines 194-203: the first GET of the page.
\* A failure is caught inside the function, which then returns no links.
Scrape(w) ==
    /\ pc[w] = "scrape"
    /\ NetRequest(current_url[w])
    /\ fetch_log' = fetch_log \cup { [url |-> NormalizeUrl(current_url[w]), depth |-> depth[w]] }
    /\ pages_fetched' = pages_fetched + 1
    /\ newly_found_count' = [newly_found_count EXCEPT ![w] = 0]
    /\ \E r \in Responses(current_url[w]) :
         /\ response' = [response EXCEPT ![w] = r]
         /\ IF r.status = "ok"
           THEN /\ links' = [links EXCEPT ![w] = ExtractLinks(r.body)]
                /\ IF wait_for_dynamic
                     THEN /\ pc' = [pc EXCEPT ![w] = "dynamic_wait"]
                          /\ wtimer' = [wtimer EXCEPT ![w] = wait_time_seconds]
                     ELSE /\ pc' = [pc EXCEPT ![w] = "add_links"]
                          /\ UNCHANGED wtimer
           ELSE /\ links' = [links EXCEPT ![w] = {}]
                /\ pc' = [pc EXCEPT ![w] = "add_links"]
                /\ UNCHANGED wtimer
    /\ UNCHANGED << config_vars, queue_vars, stop_event, page_count, state_vars, main_vars,
                    current_url, depth, current_page_count, hrefs, add_vars, passed_check,
                    put_log, response_after_wait, lock_vars >>

\* The second pass taken alone: the links of the first pass are forgotten.
LinksOfSecondPassOnly(first_links, r) ==
    IF r.status = "ok" THEN ExtractLinks(r.body) ELSE {}

\* Lines 226-239: the links after the second response: those it holds join
\* the links of the first pass; a failed fetch leaves the first ones.
LinksAfterWait(first_links, r) ==
    IF r.status = "ok" THEN first_links \cup ExtractLinks(r.body) ELSE first_links

\* Lines 223-239: after the wait the page is fetched once more; its links
\* join those of the first response, and a failure keeps the first ones.
Rescrape(w) ==
    /\ pc[w] = "dynamic_wait"
    /\ wtimer[w] = 0
    /\ NetRequest(current_url[w])
    /\ \E r \in ResponsesAfterWait(current_url[w]) :
         /\ response_after_wait' = [response_after_wait EXCEPT ![w] = r]
         /\ links' = [links EXCEPT ![w] = LinksAfterWait(links[w], r)]
    /\ pc' = [pc EXCEPT ![w] = "add_links"]
    /\ UNCHANGED << config_vars, queue_vars, stop_event, page_count, state_vars, main_vars,
                    current_url, depth, newly_found_count, current_page_count, hrefs, wtimer,
                    add_vars, log_vars, response, lock_vars >>

\* Line 437: the links of the page that pass link.startswith(WHATSAPP_DOMAIN).
WhatsAppLinks(page_links) == { l \in page_links : StartsWithWhatsApp(l) }

\* Lines 436-440: one link of the page that passes the test of line 437 (the
\* others are skipped without touching shared state); list(links) has no
\* fixed order.  The history keeps what the first call for the link returned
\* and counts the calls that returned True.
AddLink(w) ==
    /\ pc[w] = "add_links"
    /\ lock = <<w>>
    /\ lock' = Release(w)
    /\ \E link \in WhatsAppLinks(links[w]) :
         /\ links' = [links EXCEPT ![w] = links[w] \ {link}]
         /\ scraped_whatsapp_links' = add_scraped_link_set(link)
         /\ first_return' = IF link \in DOMAIN first_return
                              THEN first_return
                              ELSE first_return @@ (link :> add_scraped_link_returns(link))
         /\ IF add_scraped_link_returns(link)
              THEN /\ newly_found_count' = [newly_found_count EXCEPT ![w] = @ + 1]
                   /\ newly_found_total' = newly_found_total + 1
                   /\ true_returns' = Bump(true_returns, link)
              ELSE UNCHANGED << newly_found_count, newly_found_total, true_returns >>
    /\ UNCHANGED << config_vars, queue_vars, stop_event, page_count, visited_urls,
                    domain_last_request_time, main_vars, pc, current_url, depth,
                    current_page_count, hrefs, wtimer, net_vars, log_vars,
                    resp_vars, progress_lock >>

\* progress_callback, lines 533-536: the counter is raised under progress_lock.
Progress(w) ==
    /\ pc[w] = "add_links"
    /\ progress_lock = <<w>>
    /\ progress_lock' = Release(w)
    /\ WhatsAppLinks(links[w]) = {}
    /\ links' = [links EXCEPT ![w] = {}]
    /\ page_count' = page_count + 1
    /\ current_page_count' = [current_page_count EXCEPT ![w] = page_count + 1]
    /\ pc' = [pc EXCEPT ![w] = "check_max"]
    /\ UNCHANGED << config_vars, queue_vars, stop_event, state_vars, main_vars, current_url,
                    depth, newly_found_count, hrefs, wtimer, net_vars, add_vars, log_vars,
                    resp_vars, lock >>

\* Line 539 with > in place of >=.
ReachedMaxPagesExclusive(count) == count > max_pages

\* progress_callback, line 539
ReachedMaxPages(count) == count >= max_pages

\* Line 448 with <= in place of <.
MayDiscoverAtLimit(d) == IF max_depth = <<>> THEN TRUE ELSE d <= max_depth[1]

\* Line 448: links are discovered below the depth limit only.
MayDiscover(d) == IF max_depth = <<>> THEN TRUE ELSE d < max_depth[1]

\* progress_callback, lines 539-540: the stop event is set at the page limit;
\* then the depth test of line 448 chooses between discovery and the finally.
CheckMax(w) ==
    /\ pc[w] = "check_max"
    /\ stop_event' = (stop_event \/ ReachedMaxPages(current_page_count[w]))
    /\ pc' = [pc EXCEPT ![w] = IF MayDiscover(depth[w]) THEN "discover" ELSE "td_finally"]
    /\ UNCHANGED << config_vars, queue_vars, page_count, state_vars, main_vars, local_vars,
                    wtimer, net_vars, add_vars, log_vars,
                    resp_vars, lock_vars >>

\* Lines 469-471: an http(s) link of the base domain without fragment.
IsInternal(abs_url) ==
    /\ abs_url.scheme \in {"http", "https"}
    /\ StripWww(abs_url.netloc) = base_domain
    /\ abs_url.fragment = ""

\* Lines 463-471: the <a> tags of a page that pass the test of line 469, in
\* document order (the others are skipped without touching shared state).
InternalHrefs(page_url, anchors) ==
    SelectSeq(anchors, LAMBDA h : IsInternal(UrlJoin(page_url, h)))

\* Lines 456-462: the page is fetched again for its links.  A failure is
\* caught by the inner handlers; a response that is not text/html goes to the
\* task_done() of line 460.
Discover(w) ==
    /\ pc[w] = "discover"
    /\ NetRequest(current_url[w])
    /\ \E r \in Responses(current_url[w]) :
         IF r.status # "ok"
           THEN pc' = [pc EXCEPT ![w] = "td_finally"] /\ UNCHANGED hrefs
           ELSE IF ~r.html
                  THEN pc' = [pc EXCEPT ![w] = "td_nonhtml"] /\ UNCHANGED hrefs
                  ELSE /\ hrefs' = [hrefs EXCEPT ![w] = InternalHrefs(current_url[w], r.body.anchors)]
                       /\ pc' = [pc EXCEPT ![w] =
                                   IF InternalHrefs(current_url[w], r.body.anchors) = <<>>
                                     THEN "td_finally" ELSE "enqueue"]
    /\ UNCHANGED << config_vars, queue_vars, stop_event, page_count, state_vars, main_vars,
                    current_url, depth, links, newly_found_count, current_page_count, wtimer,
                    add_vars, log_vars,
                    resp_vars, lock_vars >>

\* Lines 469-475: an internal link whose normalized URL is not visited.
ShouldEnqueue(abs_url) == IsInternal(abs_url) /\ ~is_visited(NormalizeUrl(abs_url))

\* Lines 463-477: one internal <a> tag of the page.
Enqueue(w) ==
    /\ pc[w] = "enqueue"
    /\ lock = <<w>>
    /\ lock' = Release(w)
    /\ hrefs[w] # <<>>
    /\ LET abs_url == UrlJoin(current_url[w], Head(hrefs[w]))
       IN IF ShouldEnqueue(abs_url)
            THEN /\ url_queue' = Append(url_queue, [url |-> abs_url, depth |-> depth[w] + 1])
                 /\ unfinished_tasks' = unfinished_tasks + 1
                 /\ put_log' = put_log \cup { [url |-> abs_url, depth |-> depth[w] + 1,
                                               after_stop |-> stop_event] }
            ELSE UNCHANGED << url_queue, unfinished_tasks, put_log >>
    /\ hrefs' = [hrefs EXCEPT ![w] = Tail(hrefs[w])]
    /\ pc' = [pc EXCEPT ![w] = IF Tail(hrefs[w]) = <<>> THEN "td_finally" ELSE "enqueue"]
    /\ UNCHANGED << config_vars, stop_event, page_count, state_vars, main_vars, current_url,
                    depth, links, newly_found_count, current_page_count, wtimer, net_vars,
                    add_vars, passed_check, fetch_log, pages_fetched,
                    resp_vars, progress_lock >>

\* Lines 460-461: task_done() and continue inside the try blocks.  A
\* ValueError is caught by the inner handler; either way the finally follows.
TdNonHtml(w) ==
    /\ pc[w] = "td_nonhtml"
    /\ unfinished_tasks' = IF TaskDoneRaises THEN unfinished_tasks ELSE unfinished_tasks - 1
    /\ pc' = [pc EXCEPT ![w] = "td_finally"]
    /\ UNCHANGED << config_vars, url_queue, stop_event, page_count, state_vars, main_vars,
                    local_vars, wtimer, net_vars, add_vars, log_vars,
                    resp_vars, lock_vars >>

\* Lines 487-488: the task_done() of the finally block; a ValueError raised
\* here leaves the worker function.
TdFinally(w) ==
    /\ pc[w] = "td_finally"
    /\ IF TaskDoneRaises
         THEN pc' = [pc EXCEPT ![w] = "dead"] /\ UNCHANGED unfinished_tasks
         ELSE pc' = [pc EXCEPT ![w] = "loop"] /\ unfinished_tasks' = unfinished_tasks - 1
    /\ response' = [response EXCEPT ![w] = NoResponse]
    /\ response_after_wait' = [response_after_wait EXCEPT ![w] = NoResponse]
    /\ UNCHANGED << config_vars, url_queue, stop_event, page_count, state_vars, main_vars,
                    local_vars, wtimer, net_vars, add_vars, log_vars, lock_vars >>

\* ------------------------------------------------------------------ time
Down(t) == IF t > 0 THEN t - 1 ELSE 0
Older(a, cap) == IF a < cap THEN a + 1 ELSE cap

\* One second passes: the sleep timers run down and the timestamps age.
Tick ==
    /\ mpc # "begin"
    /\ wtimer' = [w \in Threads |-> Down(wtimer[w])]
    /\ domain_last_request_time' =
         [d \in DOMAIN domain_last_request_time |->
            Older(domain_last_request_time[d], PolitenessDelay)]
    /\ last_net_age' = [o \in DOMAIN last_net_age |-> Older(last_net_age[o], PolitenessDelay)]
    /\ << wtimer', domain_last_request_time', last_net_age' >>
         # << wtimer, domain_last_request_time, last_net_age >>
    /\ UNCHANGED << config_vars, queue_vars, stop_event, page_count, visited_urls,
                    scraped_whatsapp_links, main_vars, pc, local_vars, request_count,
                    request_gaps, add_vars, log_vars,
                    resp_vars, lock_vars >>

\* ------------------------------------------------------ the specification
Worker(w) ==
    \/ AcquireLock(w) \/ AcquireProgressLock(w)
    \/ LoopTest(w) \/ Get(w) \/ GetEmpty(w) \/ TdSkip(w) \/ IsVisited(w) \/ AddVisited(w)
    \/ Gate(w) \/ Wake(w) \/ UpdateTime(w) \/ Scrape(w) \/ Rescrape(w) \/ AddLink(w)
    \/ Progress(w) \/ CheckMax(w) \/ Discover(w) \/ Enqueue(w)
    \/ TdNonHtml(w) \/ TdFinally(w)

Next ==
    \/ CrawlReject \/ CrawlStart \/ WaitTest \/ AfterSleep \/ AfterSettle \/ Interrupt
    \/ Signal \/ JoinThread \/ JoinTimeout \/ Collect \/ Tick
    \/ \E w \in Threads : Worker(w)

Spec == Init /\ [][Next]_vars

\* ------------------------------------------- the crawls under fair scheduling
\* crawl_website(start_url) with its default arguments.
DefaultCall ==
    [max_depth |-> <<>>, max_pages |-> DefaultMaxPages, wait_for_dynamic |-> FALSE,
     flaky_paths |-> {}]

\* Five calls: the document site with the defaults; the seed page alone with
\* the wait for dynamic content; a start URL without a host; the
\* incremental-load endpoint alone; the page with the outbound link.
InitFair ==
    /\ \/ Called([blank |-> FALSE, url |-> DocSeed], DefaultCall)
       \/ Called([blank |-> FALSE, url |-> Seed],
                 [max_depth |-> <<0>>, max_pages |-> DefaultMaxPages,
                  wait_for_dynamic |-> TRUE, flaky_paths |-> { <<"">> }])
       \/ Called([blank |-> FALSE, url |-> Url("https", <<>>, <<>>, "", "")], DefaultCall)
       \/ Called([blank |-> FALSE, url |-> Endpoint],
                 [max_depth |-> <<0>>, max_pages |-> DefaultMaxPages,
                  wait_for_dynamic |-> FALSE, flaky_paths |-> {}])
       \/ Called([blank |-> FALSE, url |-> DocOutbound], DefaultCall)
    /\ Entered

\* The steps of the main thread that it takes by itself (an interrupt comes
\* from outside).
MainStep ==
    \/ CrawlReject \/ CrawlStart \/ WaitTest \/ AfterSleep \/ AfterSettle
    \/ Signal \/ JoinThread \/ JoinTimeout \/ Collect

\* Every thread that can take a step takes one in the end, and time passes.
Fairness ==
    /\ WF_vars(MainStep)
    /\ WF_vars(Tick)
    /\ \A w \in Threads : WF_vars(Worker(w))

\* A crawl that nobody interrupts.
NextFair == MainStep \/ Tick \/ \E w \in Threads : Worker(w)

FairSpec == InitFair /\ [][NextFair]_vars /\ Fairness

\* Three calls that may be interrupted: the section page of the document
\* site with the defaults; the seed page alone with the wait for dynamic
\* content; a start URL without a host.
InitStop ==
    /\ \/ Called([blank |-> FALSE, url |-> DocSection], DefaultCall)
       \/ Called([blank |-> FALSE, url |-> Seed],
                 [max_depth |-> <<0>>, max_pages |-> DefaultMaxPages,
                  wait_for_dynamic |-> TRUE, flaky_paths |-> {}])
       \/ Called([blank |-> FALSE, url |-> Url("https", <<>>, <<>>, "", "")], DefaultCall)
    /\ Entered

StopSpec == InitStop /\ [][Next]_vars /\ Fairness

\* ------------------------------------------------------ validate_link
UNNAMED_GROUP_PLACEHOLDER == ""

\* str.strip and str.lower on the texts the pages checked hold.
Strip(text) == CASE text = "  " -> "" [] text = " Fam " -> "Fam" [] OTHER -> text
Lower(text) == CASE text = "WhatsApp" -> "whatsapp" [] OTHER -> text

\* Line 635: the texts that are no group name.
GenericNames == {"whatsapp group invite", "whatsapp", "join group", "invite link"}

\* Lines 632-636: the first tag text that can be a group name, "" if none.
RECURSIVE NameFromTags(_)
NameFromTags(tags) ==
    IF tags = <<>> THEN UNNAMED_GROUP_PLACEHOLDER
    ELSE IF /\ Strip(Head(tags)) # ""
            /\ Len(Strip(Head(tags))) > 2
            /\ Lower(Strip(Head(tags))) \notin GenericNames
           THEN Strip(Head(tags))
           ELSE NameFromTags(Tail(tags))

\* What the GET of an invite link can meet: a failure of the request, a
\* status other than 200, a redirect to another site, or a page of
\* chat.whatsapp.com with or without an expired phrase, with the content of
\* its og:title, the texts of its name tags, with or without a logo and the
\* action button of the link; parsing may raise at the start or after the
\* group name was read.
ValidationResponses ==
    [kind : {"timeout", "connection_error", "request_exception", "http_404", "http_500",
             "redirected"},
     expired_phrase : {FALSE}, og_title : {""}, name_tags : { <<>> }, logo : {FALSE},
     action_button : {FALSE}, raises : {"none"}]
    \cup
    [kind : {"page"},
     expired_phrase : BOOLEAN,
     og_title : {"", "  ", " Fam "},
     name_tags : { <<>>, <<"ab">>, <<"WhatsApp">>, <<"ab", "Family">> },
     logo : BOOLEAN,
     action_button : BOOLEAN,
     raises : {"none", "soup", "logo"}]

\* Lines 648-652: the status before the rule on group names.
StatusBeforeRule(status, group_name_found, logo_found, action_button) ==
    IF status = "Error" THEN "Active"
    ELSE IF status = "Expired" /\ (group_name_found \/ logo_found) /\ action_button
      THEN "Active"
      ELSE status

\* Lines 654-658 without the rule on group names.
FinalStatusWithoutRule(status, group_name) == status

\* Lines 654-658: a record without a group name is marked "Expire".
FinalStatus(status, group_name) ==
    IF status = "Active" /\ Strip(group_name) = "" THEN "Expire"
    ELSE IF Strip(group_name) = "" THEN "Expire"
    ELSE status

\* Lines 662-666: an exception that is not a RequestException.
AfterParsingError(group_name) ==
    Validated(group_name, IF Strip(group_name) = "" THEN "Expire" ELSE "Parsing Error")

\* validate_link for a link whose GET is answered with r.
validate_link(r) ==
    CASE r.kind = "timeout" -> Validated(UNNAMED_GROUP_PLACEHOLDER, "Timeout Error")
      [] r.kind = "connection_error" -> Validated(UNNAMED_GROUP_PLACEHOLDER, "Connection Error")
      [] r.kind = "request_exception" -> Validated(UNNAMED_GROUP_PLACEHOLDER, "Network Error")
      [] r.kind = "http_404" -> Validated(UNNAMED_GROUP_PLACEHOLDER, "Expired (404 Not Found)")
      [] r.kind = "http_500" -> Validated(UNNAMED_GROUP_PLACEHOLDER, "HTTP Error")
      [] r.kind = "redirected" -> Validated(UNNAMED_GROUP_PLACEHOLDER, "Redirected Away")
      [] OTHER ->
           IF r.raises = "soup" THEN AfterParsingError(UNNAMED_GROUP_PLACEHOLDER)
           ELSE LET status == IF r.expired_phrase THEN "Expired" ELSE "Error"
                    group_name == IF r.og_title # "" /\ Strip(r.og_title) # ""
                                    THEN Strip(r.og_title)
                                    ELSE NameFromTags(r.name_tags)
                    group_name_found == group_name # UNNAMED_GROUP_PLACEHOLDER
                IN  IF r.raises = "logo" THEN AfterParsingError(group_name)
                    ELSE Validated(group_name,
                                   FinalStatus(StatusBeforeRule(status, group_name_found,
                                                                r.logo, r.action_button),
                                               group_name))

\* ------------------------------------------------------------- main()
\* Everything but the session state.
crawl_vars == << start_url, max_depth, max_pages, wait_for_dynamic, wait_time_seconds,
                 base_domain, flaky_paths, queue_vars, stop_event, page_count, state_vars,
                 main_vars, pc, local_vars, resp_vars, lock_vars, wtimer, net_vars,
                 add_vars, log_vars >>

\* f"{scheme}://{netloc}{path}", lines 727 and 918
NormalizedLink(link) == SchemeNetlocPath(link)

\* The link sets a scrape, a search or a crawl can return (the scrapers keep
\* scheme://netloc/path) and the lines a user can type or upload.
ScrapedLinkSets == SUBSET { Invite1, Invite3 }
ManualLines == SUBSET { Invite1, Invite1Ref, Invite3, OtherSite }

\* Lines 722-731 and 909: a run of the script adds the links of the
\* results to the processed set, then takes the links of the action that
\* are not in it.
StartValidation(current_action_scraped_links) ==
    LET processed == processed_links_in_session
                       \cup { NormalizedLink(l) : l \in results }
    IN  /\ processed_links_in_session' = processed
        /\ links_to_validate_now' = current_action_scraped_links \ processed
        /\ new_results_this_run' = {}
        /\ spc' = IF current_action_scraped_links \ processed # {}
                    THEN "validating" ELSE "idle"
        /\ UNCHANGED << results, result_validated, validated_links, validated_again,
                        crawl_vars >>

\* Lines 806-869: an action that scrapes, searches or crawls.
ScrapeAction ==
    /\ spc = "idle"
    /\ \E found \in ScrapedLinkSets : StartValidation(found)

\* Lines 870-905: links entered by hand or uploaded; those that do not start
\* with WHATSAPP_DOMAIN are skipped.
ManualAction ==
    /\ spc = "idle"
    /\ \E lines \in ManualLines :
         StartValidation({ l \in lines : StartsWithWhatsApp(l) })

\* Lines 914-927: one link of the action is validated and its normalized
\* form is added to the processed set.
ValidateOne ==
    /\ spc = "validating"
    /\ \E link \in links_to_validate_now, r \in ValidationResponses :
         /\ result_validated' = validate_link(r)
         /\ links_to_validate_now' = links_to_validate_now \ {link}
         /\ new_results_this_run' = new_results_this_run \cup {link}
         /\ processed_links_in_session' =
                processed_links_in_session \cup { NormalizedLink(link) }
         /\ validated_links' = validated_links \cup {link}
         /\ validated_again' = IF link \in validated_links
                                 THEN validated_again \cup {link}
                                 ELSE validated_again
    /\ UNCHANGED << results, spc, crawl_vars >>

\* Lines 932-933: the results of the run join the results of the session.
FinishValidation ==
    /\ spc = "validating"
    /\ links_to_validate_now = {}
    /\ results' = results \cup new_results_this_run
    /\ spc' = "idle"
    /\ UNCHANGED << processed_links_in_session, links_to_validate_now,
                    new_results_this_run, result_validated, validated_links,
                    validated_again, crawl_vars >>

\* Lines 794-800: the button that clears the results.
ClearAll ==
    /\ spc = "idle"
    /\ results' = {}
    /\ processed_links_in_session' = {}
    /\ validated_links' = {}
    /\ validated_again' = {}
    /\ UNCHANGED << spc, links_to_validate_now, new_results_this_run, result_validated,
                    crawl_vars >>

\* A session in which no crawl is running.
InitSession ==
    /\ Called([blank |-> TRUE, url |-> Url("", <<>>, <<>>, "", "")], DefaultCall)
    /\ Entered

NextSession ==
    ScrapeAction \/ ManualAction \/ ValidateOne \/ FinishValidation \/ ClearAll

SessionSpec == InitSession /\ [][NextSession]_vars

\* ------------------------------------------------------------ the claims
InFlight(w) == pc[w] \notin {"idle", "loop", "get", "done", "dead"}
SeedEntry == [url |-> Seed, depth |-> 0, after_stop |-> FALSE]

\* C1: in any crawl each URL is requested from the network at most once:
\* there are never two HTTP requests for the same normalized URL, neither by
\* two workers nor by one worker while it handles one frontier entry.  It is
\* stated for the crawls that do not ask for the second, delayed fetch of
\* wait_for_dynamic, which requests the page again by design.
C1_EachUrlRequestedOnce ==
    ~wait_for_dynamic => \A u \in DOMAIN request_count : request_count[u] <= 1

\* C2: of any two HTTP requests of one crawl to the same origin, the later
\* one starts at least politeness_delay after the earlier one.
C2_PolitenessInterval == \A gap \in request_gaps : gap >= PolitenessDelay

\* C3: marking a URL visited is a compare-and-set: of the workers that
\* dequeue entries with the same normalized URL at most one passes the
\* visited check and goes on to fetch the page.
C3_VisitedCheckPassedOnce == \A u \in DOMAIN passed_check : passed_check[u] <= 1

\* C4: for every target link exactly the first add_scraped_link call returns
\* True and every later call returns False, in any interleaving; the sum of
\* the workers' newly-found counts equals the size of the result set.
C4_FirstAddReturnsTrue ==
    /\ DOMAIN first_return = scraped_whatsapp_links
    /\ \A link \in DOMAIN first_return :
         /\ first_return[link]
         /\ link \in DOMAIN true_returns
         /\ true_returns[link] = 1
    /\ newly_found_total = Cardinality(scraped_whatsapp_links)

\* C4 witness: a worker scraping /p1 has called add_scraped_link for the
\* invite link that the seed page had already added, and was told False.
C4_SecondAddReturnedFalse ==
    \E w \in Threads :
      /\ pc[w] = "add_links"
      /\ NormalizeUrl(current_url[w]).path = <<"p1">>
      /\ links[w] = { SchemeNetlocPath(Invite2Http) }
      /\ newly_found_count[w] = 0
      /\ Invite1 \in scraped_whatsapp_links

\* C5: with maxPages = k and more than k reachable pages exactly k pages are
\* fetched, and the page count never exceeds k.
C5_PageCountWithinMax == pages_fetched <= max_pages /\ page_count <= max_pages

\* C6: with maxPages = 1 and no depth limit only the seed page is fetched and
\* no child link of the seed is put on the frontier.
C6_MaxPagesOneSeedOnly ==
    (max_pages = 1 /\ max_depth = <<>>) =>
        /\ put_log \subseteq {SeedEntry}
        /\ fetch_log \subseteq { [url |-> NormalizeUrl(Seed), depth |-> 0] }

\* C7: with maxDepth = d no page deeper than d is fetched and no child of a
\* page at depth d is enqueued; with maxDepth = 0 only the seed page is
\* fetched and nothing is enqueued after the seed.
C7_DepthLimit ==
    max_depth # <<>> =>
        /\ \A f \in fetch_log : f.depth <= max_depth[1]
        /\ \A e \in put_log : e.depth <= max_depth[1]
        /\ max_depth[1] = 0 =>
             /\ put_log \subseteq {SeedEntry}
             /\ fetch_log \subseteq { [url |-> NormalizeUrl(Seed), depth |-> 0] }

\* C7 witness: with maxDepth = 1 a worker has fetched a page at depth 1 and
\* reached the end of its iteration, the queue having received children of
\* the seed only.
C7_LimitReached ==
    \E w \in Threads :
      /\ max_depth = <<1>>
      /\ depth[w] = 1
      /\ pc[w] = "td_finally"
      /\ [url |-> NormalizeUrl(current_url[w]), depth |-> 1] \in fetch_log
      /\ page_count >= 2

\* C8: without maxPages reached and without cancellation the wait loop ends
\* (the crawl moves to Stopped) only when the frontier is empty and no worker
\* has a dequeued page in flight.
C8_BreakOnlyWhenDrained ==
    (mpc = "break" /\ ~stop_event) =>
        /\ url_queue = <<>>
        /\ \A w \in Threads : ~InFlight(w)

\* C9: when crawl_website returns every worker has exited, so the returned
\* link set and the reported page count are final.
C9_ReturnedMeansExited ==
    (mpc = "returned" /\ base_domain # <<>>) =>
        /\ \A w \in Threads : Exited(w)
        /\ result = scraped_whatsapp_links
        /\ reported_pages = page_count

\* C10: once the stop signal is set no worker puts a further entry on the
\* frontier.
C10_NoPutAfterStop == \A e \in put_log : ~e.after_stop

\* C11: the stop signal is checked before every network call: once it is set
\* no worker starts a new HTTP request, be it the scrape of a dequeued entry,
\* the re-fetch after the wait or the link-discovery fetch.
C11_NoRequestAfterStop == [][stop_event => request_count' = request_count]_vars

\* C12: a failure on one URL (network error, HTTP error, non-HTML content
\* type, parse error) never ends a worker: after any dequeued entry the worker
\* is back at the top of its loop, and it exits only after the stop signal.
C12_WorkersSurviveFailures ==
    \A w \in Threads : pc[w] # "dead" /\ (pc[w] = "done" => stop_event)

\* C13: a link once collected is never dropped: it stays in the result set in
\* every later state and it is in the set that crawl_website returns.
C13_CollectedLinksKept ==
    /\ DOMAIN first_return \subseteq scraped_whatsapp_links
    /\ mpc = "returned" => DOMAIN first_return \subseteq result

\* C14: a page fetch that fails transiently is retried up to retryCount (2)
\* times: a URL is given up after a timeout only when 1 + 2 requests for it
\* have been made.
C14_SkippedOnlyAfterRetries ==
    \A w \in Threads :
      (pc[w] = "add_links" /\ response[w].status = "timeout") =>
          request_count[NormalizeUrl(current_url[w])] >= 3

\* C15: after an HTTP 4xx response (other than 429) for a URL no further
\* request for that URL is issued: the worker whose scrape got the 404 sends
\* nothing more for the entry in hand.
C15_NoRequestAfter4xx ==
    [][\A w \in Threads :
         response[w].status = "http_404" =>
             request_count'[NormalizeUrl(current_url[w])]
                 = request_count[NormalizeUrl(current_url[w])]]_vars

\* C16: a response that is not text/html contributes nothing: no link taken
\* from it enters the result set and no child link from it is enqueued.
C16_NonHtmlContributesNothing ==
    [][\A w \in Threads :
         (/\ response[w].status = "ok"
          /\ ~response[w].html
          /\ response_after_wait[w].status = "none") =>
             /\ newly_found_count'[w] <= newly_found_count[w]
             /\ pc'[w] # "enqueue"]_vars

\* C17: no worker holds the crawler state lock or the progress lock while it
\* performs a network call or sleeps: a worker that is about to send a
\* request, or is in its politeness sleep or its wait for dynamic content,
\* holds neither lock.
C17_NoLockAcrossNetworkOrSleep ==
    \A w \in Threads :
      pc[w] \in {"polite_sleep", "scrape", "dynamic_wait", "discover"} =>
          lock # <<w>> /\ progress_lock # <<w>>

\* C17 witness: one worker is in its politeness sleep while the other worker
\* is inside a with block of the state lock.
C17_SleeperBesideLockHolder ==
    \E w, v \in Threads :
      w # v /\ pc[w] = "polite_sleep" /\ wtimer[w] > 0 /\ lock = <<v>>

\* C18: invalid configuration fails fast: when the seed URL is blank or has no
\* host, crawl_website returns an empty result before any worker is started
\* and before anything is enqueued or fetched.
C18_InvalidSeedFailsFast ==
    (start_url.blank \/ start_url.url.netloc = <<>>) =>
        /\ mpc \in {"begin", "returned"}
        /\ result = {}
        /\ put_log = {} /\ url_queue = <<>>
        /\ request_count = << >> /\ fetch_log = {}
        /\ \A w \in Threads : pc[w] = "idle"

\* C18 witness: crawl_website has returned for a seed URL without a host.
C18_RejectedNoHost ==
    mpc = "returned" /\ ~start_url.blank /\ start_url.url.netloc = <<>>

\* C20: with wait_for_dynamic enabled, scraping a page makes exactly one more
\* fetch of that page once the delay is over and returns the union of the
\* links of the first and of the second response; when the second fetch
\* fails, the links of the first pass are returned.
C20_RefetchOnceAndUnion ==
    [][\A w \in Threads :
         (pc[w] = "dynamic_wait" /\ pc'[w] # "dynamic_wait") =>
             /\ wait_for_dynamic /\ response[w].status = "ok" /\ wtimer[w] = 0
             /\ request_count'[NormalizeUrl(current_url[w])]
                  = request_count[NormalizeUrl(current_url[w])] + 1
             /\ pc'[w] = "add_links"
             /\ IF response_after_wait'[w].status = "ok"
                  THEN links'[w] = links[w] \cup ExtractLinks(response_after_wait'[w].body)
                  ELSE links'[w] = links[w]]_vars

\* C20 witness: the second response held a link that the first had not, and
\* the worker now holds the links of both.
C20_BothPassesMerged ==
    \E w \in Threads :
      /\ pc[w] = "add_links"
      /\ response[w].status = "ok"
      /\ response_after_wait[w].status = "ok"
      /\ response_after_wait[w].body # response[w].body
      /\ links[w] = {Invite1, InviteLate}

C21_CallbackIsAdvisory ==
    [][\A w \in Threads :
         ( \/ pc[w] = "add_links" /\ pc'[w] = "check_max"
           \/ pc[w] = "check_max" /\ pc'[w] # "check_max" )
         => UNCHANGED << stop_event, url_queue, unfinished_tasks, visited_urls,
                         scraped_whatsapp_links >>]_vars

\* What the claim C22 has one fetched page resolve to: the matches of the
\* first extraction method that matches, and the page's own URL when none does.
FirstIdiomOrSelf(page_url, body) ==
    LET by_anchor == ExtractLinks([body EXCEPT !.text_links = {}])
        by_text == ExtractLinks([body EXCEPT !.anchors = <<>>])
    IN  IF by_anchor # {} THEN by_anchor
        ELSE IF by_text # {} THEN by_text
        ELSE {page_url}

\* C22: when a fetched page is resolved, the extraction methods are tried in
\* their fixed order and the first that matches gives the result; when the
\* page was fetched and none matches, the page's own link is recorded as
\* unresolved and not discarded.
C22_FirstIdiomWinsElseSelf ==
    [][\A w \in Threads :
         (pc[w] = "scrape" /\ pc'[w] # "scrape" /\ response'[w].status = "ok")
         => links'[w] = FirstIdiomOrSelf(current_url[w], response'[w].body)]_vars

\* C23: a paginated endpoint is fetched step by step while each step returns
\* new links, and no more after the first step whose body is empty: for an
\* endpoint that gives 3 non-empty batches and then an empty body, a worker
\* that is through with it has made exactly 4 fetches of it and the links of
\* the three batches are recorded.
C23_PaginationFetchesUntilEmpty ==
    \A w \in Threads :
      (pc[w] = "td_finally" /\ IsEndpoint(current_url[w]))
      => /\ Requests(Endpoint) = NumBatches + 1
         /\ { BatchInvite(k) : k \in 1 .. NumBatches } \subseteq scraped_whatsapp_links

\* C24: after the stop signal is set, every worker thread eventually ends,
\* given that fetches return: one that waits on the empty queue at its next
\* loop test, one that is in the middle of a page when it next reaches the
\* top of its loop.
C24_WorkersExitAfterStop ==
    stop_event ~> \A w \in Threads : pc[w] \in {"done", "dead"}
\* The main thread has returned without a link that a worker, in the middle
\* of its page when the stop signal came, added later; both workers have
\* left their loops since.
C24_LateWorkerExited ==
    /\ mpc = "returned"
    /\ result # scraped_whatsapp_links
    /\ \A w \in Threads : pc[w] = "done"

\* The host of a URL without a leading 'www.'.
HostIgnoringWww(u) ==
    IF u.netloc # <<>> /\ Head(u.netloc) = "www." THEN Tail(u.netloc) ELSE u.netloc

\* C25: every entry ever put on the frontier is the seed at depth 0 or a
\* fragment-free http(s) link whose host, ignoring 'www.', is the seed's,
\* put at depth d + 1 for a fetched page of depth d; no URL of another
\* origin is ever enqueued or fetched by a worker.
C25_FrontierStaysOnOrigin ==
    /\ \A e \in put_log :
         \/ e.url = WithScheme(start_url.url) /\ e.depth = 0
         \/ /\ e.url.scheme \in {"http", "https"}
            /\ e.url.fragment = ""
            /\ HostIgnoringWww(e.url) = HostIgnoringWww(start_url.url)
            /\ \E f \in fetch_log : e.depth = f.depth + 1
    /\ \A f \in fetch_log : HostIgnoringWww(f.url) = HostIgnoringWww(start_url.url)

\* The pages that the page u links to on its own site.
Children(u) ==
    { NormalizeUrl(UrlJoin(u, PageBody(u).anchors[i])) :
        i \in { j \in DOMAIN PageBody(u).anchors :
                  IsInternal(UrlJoin(u, PageBody(u).anchors[j])) } }

\* The pages at link distance k or less from the pages of S.
RECURSIVE WithinDistance(_, _)
WithinDistance(S, k) ==
    IF k = 0 THEN S ELSE WithinDistance(S \cup UNION { Children(u) : u \in S }, k - 1)

\* The pages that can be reached from the pages of S.
RECURSIVE Reachable(_)
Reachable(S) ==
    IF UNION { Children(u) : u \in S } \subseteq S
      THEN S
      ELSE Reachable(S \cup UNION { Children(u) : u \in S })

C27_PageCountOvershootBounded ==
    [][ /\ page_count' <= max_pages + NumThreads - 1
        /\ \A w \in Threads :
             (pc[w] = "add_links" /\ pc'[w] = "check_max")
             => current_page_count[w] < max_pages ]_vars
\* Every worker has overshot: the count stands at k + N - 1.
C27_CountAtUpperBound == page_count = max_pages + NumThreads - 1

\* C28: for every entry a worker dequeues, task_done is called exactly once
\* on every path, so the calls never outnumber the entries put: the queue's
\* count of unfinished tasks is always the entries still queued plus the
\* entries the workers have in hand, and no call finds the count at 0 and
\* raises.
C28_TaskDoneOncePerEntry ==
    /\ unfinished_tasks = Len(url_queue) + Cardinality({ w \in Threads : InFlight(w) })
    /\ \A w \in Threads : pc[w] # "dead"

\* C29: within one session, until the results are cleared, a link is
\* validated at most once: a link that was validated is in the processed
\* set and is not given to validate_link again when a later action yields
\* the same link, links with a query string included.
C29_ValidatedAtMostOnce == validated_again = {}

\* C30: validate_link never returns the Status "Active" with an empty Group
\* Name; a record without a Group Name from a path that reaches the final
\* status rules (200 on the target domain, or a parsing exception) has the
\* Status "Expire".
C30_NoActiveWithoutName ==
    Strip(result_validated.name) = ""
    => /\ result_validated.status # "Active"
       /\ result_validated.status
            \in {"none", "Expire", "Timeout Error", "Connection Error", "Network Error",
                 "Expired (404 Not Found)", "HTTP Error", "Redirected Away"}
\* A link was validated and its record has no Group Name and the Status
\* "Expire".
C30_UnnamedMarkedExpire ==
    /\ validated_links # {}
    /\ result_validated = Validated(UNNAMED_GROUP_PLACEHOLDER, "Expire")

====
